---- MODULE Spec2Model ----
(***************************************************************************)
(* Model of the reactive visual entity synchronisation of the ROSE client: *)
(*   - character_model_update_system (systems/character_model_system.rs)   *)
(*   - name_tag_visibility_system  (systems/name_tag_visibility_system.rs) *)
(* Each system is one action: the whole body of the system followed by the *)
(* application of the commands it queued (the schedule's sync point).      *)
(***************************************************************************)
EXTENDS Naturals, Integers, Sequences, FiniteSets, TLC

(***************************************************************************)
(* Bounds of the model.                                                    *)
(***************************************************************************)
\* rig entities (bones, parts) that may be alive or referenced at one time
MaxEntity == 8
\* inputs (component writes by other systems) of one behaviour of PairSpec
MaxInputs == 4
\* pending RemovedComponents<PersonalStore> events between two ticks
MaxRemoved == 2
\* clan invites received in one behaviour
MaxInvites == 3

\* the character entities of the world
Chars == {1, 2}
\* CharacterInfo.gender values
Genders == {0, 1}
\* bones of a skeleton built by the rig builder
NumBones == 2
\* slots of CharacterModel.model_parts that the model follows
NumSlots == 1
Slots == 1..NumSlots
\* model ids an equipment slot can resolve to; 0 resolves to no part
Items == {0, 1}
Equipments == [Slots -> Items]

VARIABLES
    world,      \* per character: CharacterInfo, Equipment, PersonalStore, rig components
    changed,    \* per character: change ticks newer than the system's last run
    removed,    \* RemovedComponents<PersonalStore> events not yet read
    rigOf,      \* per character: live entities spawned as its bones or parts
    inputs,     \* inputs received so far
    log,        \* what the last tick of character_model_update_system did
    target,     \* SelectedTarget resource
    state,      \* Local<NameTagVisibility>
    vis,        \* Visibility of name tags and of their children
    dead,       \* targets carrying Dead
    store,      \* targets carrying PersonalStore (name tag parents)
    show_all,   \* NameTagSettings.show_all
    tlog,       \* what the last tick of name_tag_visibility_system did
    vehicle,    \* per character: it carries Vehicle
    vehicleAdded,    \* per character: Vehicle added since the height system's last run
    removedVehicles, \* RemovedComponents<Vehicle> events not yet read
    tagY,       \* per character: Transform.translation.y of its name tag
    rlog,       \* what the last tick of name_tag_vehicle_height_system did
    invites,    \* PendingClanInvites.invites
    received,   \* invites received so far
    game_connection, \* the GameConnection resource exists
    ilog        \* what the last tick of ui_clan_invite_system did

modelVars == <<world, changed, removed, rigOf, inputs, log>>
tagVars == <<target, state, vis, dead, store, show_all, tlog>>
inviteVars == <<invites, received, game_connection, ilog>>
rideVars == <<vehicle, vehicleAdded, removedVehicles, tagY, rlog>>
vars == <<world, changed, removed, rigOf, inputs, log,
          target, state, vis, dead, store, show_all, tlog,
          vehicle, vehicleAdded, removedVehicles, tagY, rlog,
          invites, received, game_connection, ilog>>

(***************************************************************************)
(* Components.                                                             *)
(***************************************************************************)
\* Option<CharacterModel> = None
NoCharacterModel ==
    [has |-> FALSE, gender |-> 0,
     model_parts |-> [s \in Slots |-> [id |-> 0, ents |-> <<>>]]]

\* Option<SkinnedMesh> = None
NoSkinnedMesh == [has |-> FALSE, joints |-> <<>>]

Range(seq) == {seq[i] : i \in DOMAIN seq}

\* every entity a CharacterModel references
PartEntities(cm) == UNION {Range(cm.model_parts[s].ents) : s \in Slots}

\* every entity the rig components of a character reference
RigRefs(c) == PartEntities(c.cm) \cup Range(c.sm.joints)

\* all live rig entities (what Query<Entity> can see of them)
Live(r) == UNION {r[e] : e \in Chars}

(***************************************************************************)
(* Commands: queued by the system, applied in order after it returns.      *)
(***************************************************************************)
SpawnCmd(id, e) == [op |-> "spawn", ent |-> id, owner |-> e]
DespawnCmd(id) == [op |-> "despawn", ent |-> id]
CompCmd(name, e) == [op |-> name, ent |-> e]
InsertCmCmd(e, cm) == [op |-> "insert_cm", ent |-> e, cm |-> cm]
InsertSmCmd(e, sm) == [op |-> "insert_sm", ent |-> e, sm |-> sm]

\* The entity allocator.  An id stands for an Entity (index and generation);
\* an id that is neither alive nor referenced by any component cannot be told
\* from one never handed out, so the allocator hands out the smallest such id.
MinFree(used) ==
    CHOOSE i \in 1..(Cardinality(used) + 1) :
        i \notin used /\ \A j \in 1..(i - 1) : j \in used

RECURSIVE FreshIds(_, _)
\* n fresh ids, none of them in used, as a sequence
FreshIds(used, n) ==
    IF n = 0 THEN <<>>
    ELSE LET x == MinFree(used)
         IN  <<x>> \o FreshIds(used \cup {x}, n - 1)

SpawnCmds(ids, e) == [i \in DOMAIN ids |-> SpawnCmd(ids[i], e)]

\* the drain without the existence check
DespawnExisting_Unchecked(ents, liveNow) ==
    [i \in DOMAIN ents |-> DespawnCmd(ents[i])]

\* for x in v.drain(..) { if query_entities.get(x).is_ok() { despawn_recursive } }
DespawnExisting(ents, liveNow) ==
    LET kept == SelectSeq(ents, LAMBDA x : x \in liveNow)
    IN  [i \in DOMAIN kept |-> DespawnCmd(kept[i])]

(***************************************************************************)
(* The rig builder (ModelLoader).  st is the running state of one tick:    *)
(*   st.w     the components as the system sees and mutates them           *)
(*   st.used  the ids the allocator may not hand out                       *)
(*   st.cmds  the command queue                                            *)
(*   st.builds, st.updates, st.path   what was invoked for which character *)
(***************************************************************************)
\* parts the builder produces for a model id: none for an unresolvable one
PartCount(item) == IF item = 0 THEN 0 ELSE 1

RECURSIVE SpawnParts(_, _, _, _)
SpawnParts(s, st, e, equipment) ==
    IF s > NumSlots THEN st
    ELSE LET n == PartCount(equipment[s])
             ids == FreshIds(st.used, n)
         IN  SpawnParts(s + 1,
                 [st EXCEPT !.used = @ \cup Range(ids),
                            !.cmds = @ \o SpawnCmds(ids, e),
                            !.rig.cm.model_parts[s] =
                                [id |-> equipment[s], ents |-> ids]],
                 e, equipment)

\* ModelLoader::spawn_character_model: a fresh skeleton and fresh parts for
\* (character_info, equipment); returns (CharacterModel, SkinnedMesh, DummyBoneOffset)
spawn_character_model(st, e, gender, equipment) ==
    LET bones == FreshIds(st.used, NumBones)
        st1 == [st EXCEPT
                  !.used = @ \cup Range(bones),
                  !.cmds = @ \o SpawnCmds(bones, e),
                  !.builds[e] = @ + 1,
                  !.rig = [cm |-> [has |-> TRUE, gender |-> gender,
                                   model_parts |-> NoCharacterModel.model_parts],
                           sm |-> [has |-> TRUE, joints |-> bones]]]
    IN  SpawnParts(1, st1, e, equipment)

RECURSIVE UpdateParts(_, _, _, _, _)
UpdateParts(s, st, e, equipment, liveNow) ==
    IF s > NumSlots THEN st
    ELSE LET old == st.w[e].cm.model_parts[s]
             n == PartCount(equipment[s])
             ids == FreshIds(st.used, n)
         IN  IF old.id = equipment[s]
             THEN UpdateParts(s + 1, st, e, equipment, liveNow)
             ELSE UpdateParts(s + 1,
                     [st EXCEPT !.used = @ \cup Range(ids),
                                !.cmds = @ \o DespawnExisting(old.ents, liveNow)
                                           \o SpawnCmds(ids, e),
                                !.w[e].cm.model_parts[s] =
                                    [id |-> equipment[s], ents |-> ids]],
                     e, equipment, liveNow)

\* ModelLoader::update_character_equipment: swap the parts of the slots whose
\* model id differs from the recorded one; the skeleton is left alone
update_character_equipment(st, e, equipment, liveNow) ==
    UpdateParts(1, [st EXCEPT !.updates[e] = @ + 1], e, equipment, liveNow)

(***************************************************************************)
(* character_model_update_system.                                          *)
(***************************************************************************)
RECURSIVE PartsFrom(_, _)
\* the part entities of slots s.. in iteration order of model_parts
PartsFrom(s, cm) ==
    IF s > NumSlots THEN <<>>
    ELSE cm.model_parts[s].ents \o PartsFrom(s + 1, cm)

\* model_parts.drain(..) on every slot: the ids stay, the entity lists empty
DrainParts(cm) ==
    [cm EXCEPT !.model_parts =
        [s \in Slots |-> [id |-> cm.model_parts[s].id, ents |-> <<>>]]]

\* joints.drain(..)
DrainJoints(sm) == [sm EXCEPT !.joints = <<>>]

\* lines 62-68 and 113-119: drain every slot, despawn the parts that exist
DespawnModelParts(cm, liveNow) == DespawnExisting(PartsFrom(1, cm), liveNow)

\* a teardown that forgets the skeleton
DespawnSkeleton_Forgotten(sm, liveNow) == <<>>

\* lines 72-76 and 123-127: drain the joints, despawn the bones that exist
DespawnSkeleton(sm, liveNow) == DespawnExisting(sm.joints, liveNow)

\* the Or<(Changed<CharacterInfo>, Changed<Equipment>, Changed<PersonalStore>)>
\* filter; Changed<PersonalStore> can only match while the component is there
QueryMatches(w, ch, e) ==
    ch[e].info \/ ch[e].equip \/ (w[e].store /\ ch[e].store)

\* lines 59-87: the character has a PersonalStore
PersonalStoreBranch(st, e, liveNow) ==
    LET c == st.w[e]
        partCmds == IF c.cm.has THEN DespawnModelParts(c.cm, liveNow) ELSE <<>>
        boneCmds == IF c.sm.has THEN DespawnSkeleton(c.sm, liveNow) ELSE <<>>
    IN  [st EXCEPT
           !.w[e].cm = IF c.cm.has THEN DrainParts(c.cm) ELSE c.cm,
           !.w[e].sm = IF c.sm.has THEN DrainJoints(c.sm) ELSE c.sm,
           !.cmds = @ \o partCmds \o boneCmds \o
                    << CompCmd("remove_collider", e), CompCmd("remove_blink", e),
                       CompCmd("remove_cm", e), CompCmd("remove_sm", e),
                       CompCmd("remove_dbo", e) >>,
           !.path[e] = "store"]

\* an update that also throws the skeleton away
UpdateBranch_DropsSkeleton(st, e, liveNow) ==
    LET c == st.w[e]
        st1 == update_character_equipment(st, e, c.equipment, liveNow)
    IN  [st1 EXCEPT
           !.panic = @ \/ ~c.dbo \/ ~c.sm.has,
           !.w[e].sm = DrainJoints(c.sm),
           !.cmds = @ \o DespawnSkeleton(c.sm, liveNow)
                      \o << CompCmd("remove_collider", e),
                            CompCmd("remove_height", e) >>,
           !.path[e] = "update"]

\* an update that leaves the collider of the previous shape in place
UpdateBranch_KeepsCollider(st, e, liveNow) ==
    LET c == st.w[e]
        st1 == update_character_equipment(st, e, c.equipment, liveNow)
    IN  [st1 EXCEPT
           !.panic = @ \/ ~c.dbo \/ ~c.sm.has,
           !.cmds = @ \o << CompCmd("remove_height", e) >>,
           !.path[e] = "update"]

\* lines 89-110: same gender, update the existing model in place
UpdateBranch(st, e, liveNow) ==
    LET c == st.w[e]
        st1 == update_character_equipment(st, e, c.equipment, liveNow)
    IN  [st1 EXCEPT
           !.panic = @ \/ ~c.dbo \/ ~c.sm.has,
           !.cmds = @ \o << CompCmd("remove_collider", e),
                            CompCmd("remove_height", e) >>,
           !.path[e] = "update"]

\* an attach that hands the new rig to every character
AttachRig_Shared(st, e, had) ==
    [st EXCEPT
       !.w = [x \in Chars |-> [st.w[x] EXCEPT !.cm = st.rig.cm, !.sm = st.rig.sm]],
       !.cmds = @ \o <<CompCmd("insert_dbo", e)>>]

\* lines 152-168: overwrite the components the query borrowed, insert the others
AttachRig(st, e, had) ==
    [st EXCEPT
       !.w[e].cm = IF had.cm.has THEN st.rig.cm ELSE @,
       !.w[e].sm = IF had.sm.has THEN st.rig.sm ELSE @,
       !.cmds = @ \o (IF had.cm.has THEN <<>> ELSE <<InsertCmCmd(e, st.rig.cm)>>)
                  \o (IF had.sm.has THEN <<>> ELSE <<InsertSmCmd(e, st.rig.sm)>>)
                  \o (IF had.dbo THEN <<>> ELSE <<CompCmd("insert_dbo", e)>>)]

\* a rebuild that spawns a collider for the new rig
RebuiltCommands_AddsCollider(e) ==
    << CompCmd("insert_blink", e), CompCmd("insert_collider", e) >>

\* a rebuild that removes ModelHeight as the store-removal rebuild does
RebuiltCommands_RemovesHeight(e) ==
    << CompCmd("insert_blink", e), CompCmd("remove_collider", e),
       CompCmd("remove_height", e) >>

\* lines 147-150: what the rebuilt character is given besides its rig
RebuiltCommands(e) ==
    << CompCmd("insert_blink", e), CompCmd("remove_collider", e) >>

\* lines 112-168: no model yet, or the gender changed
RebuildBranch(st, e, liveNow) ==
    LET c == st.w[e]
        partCmds == IF c.cm.has THEN DespawnModelParts(c.cm, liveNow) ELSE <<>>
        boneCmds == IF c.cm.has /\ c.sm.has
                    THEN DespawnSkeleton(c.sm, liveNow) ELSE <<>>
        st1 == [st EXCEPT
                  !.w[e].cm = IF c.cm.has THEN DrainParts(c.cm) ELSE c.cm,
                  !.w[e].sm = IF c.cm.has /\ c.sm.has THEN DrainJoints(c.sm) ELSE c.sm,
                  !.cmds = @ \o partCmds \o boneCmds \o
                           (IF c.cm.has THEN <<CompCmd("remove_collider", e)>>
                                        ELSE <<>>)]
        st2 == spawn_character_model(st1, e, c.gender, c.equipment)
        st3 == [st2 EXCEPT
                  !.cmds = @ \o RebuiltCommands(e),
                  !.path[e] = "rebuild"]
    IN  AttachRig(st3, e, c)

\* a loop body without the in-place update: every change rebuilds
ProcessChanged_AlwaysRebuild(st, e, liveNow) ==
    IF st.w[e].store THEN PersonalStoreBranch(st, e, liveNow)
    ELSE RebuildBranch(st, e, liveNow)

\* lines 49-169: one iteration of the loop over the changed characters
ProcessChanged(st, e, liveNow) ==
    LET c == st.w[e]
    IN  IF c.store THEN PersonalStoreBranch(st, e, liveNow)
        ELSE IF c.cm.has /\ c.gender = c.cm.gender
             THEN UpdateBranch(st, e, liveNow)
             ELSE RebuildBranch(st, e, liveNow)

\* a system that relies on change detection alone: removals are not polled
ProcessRemoved_Ignored(st, e) == st

\* a store-removal rebuild that does not insert DummyBoneOffset
ProcessRemoved_NoDummyBoneOffset(st, e) ==
    LET c == st.w[e]
    IN  IF c.store THEN st
        ELSE LET st1 == spawn_character_model(st, e, c.gender, c.equipment)
             IN  [st1 EXCEPT
                    !.cmds = @ \o << CompCmd("insert_blink", e),
                                     CompCmd("remove_collider", e),
                                     CompCmd("remove_height", e),
                                     InsertCmCmd(e, st1.rig.cm),
                                     InsertSmCmd(e, st1.rig.sm) >>,
                    !.restores[e] = @ + 1]

\* lines 173-199: one RemovedComponents<PersonalStore> event
ProcessRemoved(st, e) ==
    LET c == st.w[e]
    IN  IF c.store THEN st     \* query_restore_from_personal_store: Without<PersonalStore>
        ELSE LET st1 == spawn_character_model(st, e, c.gender, c.equipment)
             IN  [st1 EXCEPT
                    !.cmds = @ \o << CompCmd("insert_blink", e),
                                     CompCmd("remove_collider", e),
                                     CompCmd("remove_height", e),
                                     InsertCmCmd(e, st1.rig.cm),
                                     InsertSmCmd(e, st1.rig.sm),
                                     CompCmd("insert_dbo", e) >>,
                    !.restores[e] = @ + 1]

RECURSIVE ChangedLoop(_, _, _, _)
\* the first loop, over the matching characters in entity order
ChangedLoop(st, todo, ch, liveNow) ==
    IF todo = {} THEN st
    ELSE LET e == CHOOSE x \in todo : \A y \in todo : x <= y
             st1 == IF QueryMatches(st.w, ch, e)
                    THEN ProcessChanged(st, e, liveNow) ELSE st
         IN  ChangedLoop(st1, todo \ {e}, ch, liveNow)

RECURSIVE RemovedLoop(_, _)
\* the second loop, over the removal events in the order they were sent
RemovedLoop(st, events) ==
    IF events = <<>> THEN st
    ELSE RemovedLoop(ProcessRemoved(st, Head(events)), Tail(events))

(***************************************************************************)
(* Command application (the sync point after the system).                  *)
(***************************************************************************)
\* one command applied to ws = [w, rigOf, bad]; bad counts the despawns that
\* hit an entity that is no longer there
ApplyCmd(ws, cmd) ==
    CASE cmd.op = "spawn" ->
            [ws EXCEPT !.rigOf[cmd.owner] = @ \cup {cmd.ent}]
      [] cmd.op = "despawn" ->
            IF cmd.ent \in Live(ws.rigOf)
            THEN [ws EXCEPT !.rigOf = [e \in Chars |-> ws.rigOf[e] \ {cmd.ent}]]
            ELSE [ws EXCEPT !.bad = @ + 1]
      [] cmd.op = "insert_cm" -> [ws EXCEPT !.w[cmd.ent].cm = cmd.cm]
      [] cmd.op = "insert_sm" -> [ws EXCEPT !.w[cmd.ent].sm = cmd.sm]
      [] cmd.op = "insert_dbo" -> [ws EXCEPT !.w[cmd.ent].dbo = TRUE]
      [] cmd.op = "remove_cm" -> [ws EXCEPT !.w[cmd.ent].cm = NoCharacterModel]
      [] cmd.op = "remove_sm" -> [ws EXCEPT !.w[cmd.ent].sm = NoSkinnedMesh]
      [] cmd.op = "remove_dbo" -> [ws EXCEPT !.w[cmd.ent].dbo = FALSE]
      [] cmd.op = "insert_blink" -> [ws EXCEPT !.w[cmd.ent].blink = TRUE]
      [] cmd.op = "remove_blink" -> [ws EXCEPT !.w[cmd.ent].blink = FALSE]
      [] cmd.op = "remove_collider" -> [ws EXCEPT !.w[cmd.ent].collider = FALSE]
      [] cmd.op = "insert_collider" -> [ws EXCEPT !.w[cmd.ent].collider = TRUE]
      [] cmd.op = "remove_height" -> [ws EXCEPT !.w[cmd.ent].height = FALSE]
      [] OTHER -> ws

RECURSIVE ApplyCmds(_, _)
ApplyCmds(ws, cmds) ==
    IF cmds = <<>> THEN ws
    ELSE ApplyCmds(ApplyCmd(ws, Head(cmds)), Tail(cmds))

\* the entities of the commands with the given op, in queue order
CmdEnts(cmds, op) ==
    LET sel == SelectSeq(cmds, LAMBDA c : c.op = op)
    IN  [i \in DOMAIN sel |-> sel[i].ent]

\* the spawn and despawn commands of the queue, in queue order, each with the
\* character it was spawned for (0 for a despawn)
EntityCmds(cmds) ==
    LET sel == SelectSeq(cmds, LAMBDA c : c.op \in {"spawn", "despawn"})
    IN  [i \in DOMAIN sel |->
            [op |-> sel[i].op, ent |-> sel[i].ent,
             owner |-> IF sel[i].op = "spawn" THEN sel[i].owner ELSE 0]]

\* how many commands with the given op the queue holds for character e
CountCmds(cmds, op, e) ==
    Len(SelectSeq(cmds, LAMBDA c : c.op = op /\ c.ent = e))

NoChange == [info |-> FALSE, equip |-> FALSE, store |-> FALSE]

EnvLog ==
    [last |-> "env", pre |-> <<>>, preLive |-> {}, preChanged |-> <<>>,
     preRemoved |-> <<>>, path |-> <<>>, builds |-> <<>>, updates |-> <<>>,
     restores |-> <<>>, spawned |-> <<>>, despawned |-> <<>>, bad |-> 0,
     panic |-> FALSE, order |-> <<>>, colliderRemovals |-> <<>>]

\* the system body: both loops, from the components and events it is given
RunSystem(w, ch, events, liveNow) ==
    LET st0 == [w |-> w, cmds |-> <<>>,
                used |-> liveNow \cup UNION {RigRefs(w[e]) : e \in Chars},
                rig |-> [cm |-> NoCharacterModel, sm |-> NoSkinnedMesh],
                builds |-> [e \in Chars |-> 0],
                updates |-> [e \in Chars |-> 0],
                restores |-> [e \in Chars |-> 0],
                path |-> [e \in Chars |-> "none"],
                panic |-> FALSE]
    IN  RemovedLoop(ChangedLoop(st0, Chars, ch, liveNow), events)

(***************************************************************************)
(* Actions of the model synchroniser.                                      *)
(***************************************************************************)
\* one frame: character_model_update_system runs, then its commands apply
Tick ==
    LET liveNow == Live(rigOf)
        st == RunSystem(world, changed, removed, liveNow)
        ws == ApplyCmds([w |-> st.w, rigOf |-> rigOf, bad |-> 0], st.cmds)
    IN  /\ st.used \subseteq 1..MaxEntity
        /\ world' = ws.w
        /\ rigOf' = ws.rigOf
        /\ changed' = [e \in Chars |-> NoChange]
        /\ removed' = <<>>
        /\ log' = [last |-> "tick", pre |-> world, preLive |-> liveNow,
                   preChanged |-> changed, preRemoved |-> removed,
                   path |-> st.path, builds |-> st.builds,
                   updates |-> st.updates, restores |-> st.restores,
                   spawned |-> CmdEnts(st.cmds, "spawn"),
                   despawned |-> CmdEnts(st.cmds, "despawn"),
                   bad |-> ws.bad, panic |-> st.panic,
                   order |-> EntityCmds(st.cmds),
                   colliderRemovals |->
                       [e \in Chars |-> CountCmds(st.cmds, "remove_collider", e)]]
        /\ UNCHANGED <<tagVars, rideVars, inviteVars>>

\* an identity update arrives: CharacterInfo is written (gender may change)
SetCharacterInfo(e, g) ==
    /\ world' = [world EXCEPT ![e].gender = g]
    /\ changed' = [changed EXCEPT ![e].info = TRUE]
    /\ log' = EnvLog
    /\ UNCHANGED <<removed, rigOf>>
    /\ UNCHANGED <<tagVars, rideVars, inviteVars>>

\* an equipment update arrives: Equipment is written (possibly the same value)
SetEquipment(e, eq) ==
    /\ world' = [world EXCEPT ![e].equipment = eq]
    /\ changed' = [changed EXCEPT ![e].equip = TRUE]
    /\ log' = EnvLog
    /\ UNCHANGED <<removed, rigOf>>
    /\ UNCHANGED <<tagVars, rideVars, inviteVars>>

\* the character opens a personal store: PersonalStore is inserted
OpenStore(e) ==
    /\ ~world[e].store
    /\ world' = [world EXCEPT ![e].store = TRUE]
    /\ changed' = [changed EXCEPT ![e].store = TRUE]
    /\ log' = EnvLog
    /\ UNCHANGED <<removed, rigOf>>
    /\ UNCHANGED <<tagVars, rideVars, inviteVars>>

\* another system despawns an entity that a rig still references
ExternalDespawn(id) ==
    /\ id \in rigOf[CHOOSE e \in Chars : \A x \in Chars : e <= x]
    /\ rigOf' = [e \in Chars |-> rigOf[e] \ {id}]
    /\ log' = EnvLog
    /\ UNCHANGED <<world, changed, removed>>
    /\ UNCHANGED <<tagVars, rideVars, inviteVars>>

\* the height the collider system measures on a model, in tenths of a unit
ComputedHeight(c) == IF c.gender = 0 THEN 17 ELSE 15

\* the collider system, downstream of the synchroniser: a character that has
\* a model and no collider gets a collider and its ModelHeight
ComputeCollider(e) ==
    /\ world[e].cm.has
    /\ ~world[e].collider
    /\ world' = [world EXCEPT ![e].collider = TRUE, ![e].height = TRUE,
                              ![e].model_height = ComputedHeight(world[e])]
    /\ log' = EnvLog
    /\ UNCHANGED <<changed, removed, rigOf>>
    /\ UNCHANGED <<tagVars, rideVars, inviteVars>>

\* the store closes: PersonalStore is removed, which sends a removal event
CloseStore(e) ==
    /\ world[e].store
    /\ Len(removed) < MaxRemoved
    /\ world' = [world EXCEPT ![e].store = FALSE]
    /\ changed' = [changed EXCEPT ![e].store = FALSE]
    /\ removed' = Append(removed, e)
    /\ log' = EnvLog
    /\ UNCHANGED rigOf
    /\ UNCHANGED <<tagVars, rideVars, inviteVars>>

(***************************************************************************)
(* name_tag_visibility_system.                                             *)
(***************************************************************************)
\* Option<Entity> = None
None == 0
\* the entities the user can point at: 1 a player character, 2 an NPC,
\* 3 a monster, 4 an entity without a name tag
Targets == {1, 2, 3, 4}
\* the name tag entities
Tags == {11, 12, 13}
Children == {"label", "mark", "hb_bg", "hb_fg"}

\* Query<&NameTagEntity>: the name tag of a target, None without the component
NameTagEntityOf(t) ==
    CASE t = 1 -> 11 [] t = 2 -> 12 [] t = 3 -> 13 [] OTHER -> None

\* Query<&Parent> on a name tag: the entity the tag hangs on
ParentOf(tag) == CASE tag = 11 -> 1 [] tag = 12 -> 2 [] tag = 13 -> 3 [] OTHER -> None

\* NameTag.name_tag_type
NameTagTypes == {"Character", "Npc", "Monster"}
NameTagTypeOf(tag) ==
    CASE tag = 11 -> "Character" [] tag = 12 -> "Npc" [] OTHER -> "Monster"

\* entities with the Npc component (NPCs and monsters)
HasNpc(t) == t \in {2, 3}
\* entities that can carry a PersonalStore: player characters
CanOwnStore(t) == t = 1

\* is_store_name_tag: the tag's parent has PersonalStore
is_store_name_tag(tag, st) == ParentOf(tag) # None /\ ParentOf(tag) \in st

\* the "restore unselected visibility" rule of lines 97-106 and 126-135
DefaultVisibility(tag, st, all) ==
    IF is_store_name_tag(tag, st) \/ all[NameTagTypeOf(tag)]
    THEN "Inherited" ELSE "Hidden"

\* query_npc_dead.get(entity).ok(): Query<&Dead, With<Npc>>
IsDeadNpc(t, dd) == t # None /\ HasNpc(t) /\ t \in dd

\* a system without the veto: dead NPCs stay focused
VetoDead_Missing(t, dd) == t

\* a veto that forgets With<Npc>: every dead target is cleared
VetoDead_AnyDead(t, dd) == IF t # None /\ t \in dd THEN None ELSE t

\* a veto that forgets &Dead: every NPC is cleared, alive or not
VetoDead_AnyNpc(t, dd) == IF t # None /\ HasNpc(t) THEN None ELSE t

\* lines 65-81: a focus field that points at a dead NPC is cleared
VetoDead(t, dd) == IF IsDeadNpc(t, dd) THEN None ELSE t

\* lines 83-90: SelectedTarget field to name tag entity
ResolveNameTag(t) == IF t = None THEN None ELSE NameTagEntityOf(t)

\* a hover change that leaves the previous anchor as it was
RestoreHover_Forgotten(v, prev, new, st, all) == v

\* lines 92-109: the previous hover anchor falls back to the default rule
RestoreHover(v, prev, new, st, all) ==
    IF prev # new /\ prev # None
    THEN [v EXCEPT ![prev].self = DefaultVisibility(prev, st, all)]
    ELSE v

\* a hover that shows the selection-only children as well
ShowHover_WithChildren(v, new) ==
    IF new # None
    THEN [v EXCEPT ![new] = [k \in DOMAIN v[new] |-> "Inherited"]]
    ELSE v

\* lines 114-119: the hovered name tag is made visible
ShowHover(v, new) ==
    IF new # None THEN [v EXCEPT ![new].self = "Inherited"] ELSE v

\* the children matched by query_name_tag_selected
SelectedOnly == {"mark", "hb_bg", "hb_fg"}
\* the children matched by query_name_tag_healthbar
Healthbar == {"hb_bg", "hb_fg"}

\* a deselection that leaves the children of the anchor as they were
RestoreSelected_KeepsChildren(v, prev, new, st, all) ==
    IF prev # new /\ prev # None
    THEN [v EXCEPT ![prev].self = DefaultVisibility(prev, st, all)]
    ELSE v

\* lines 121-147: the previous selected anchor falls back to the default rule
\* and its selection-only children are hidden
RestoreSelected(v, prev, new, st, all) ==
    IF prev # new /\ prev # None
    THEN [v EXCEPT ![prev] =
            [k \in DOMAIN v[prev] |->
                IF k = "self" THEN DefaultVisibility(prev, st, all)
                ELSE IF k \in SelectedOnly THEN "Hidden" ELSE v[prev][k]]]
    ELSE v

\* lines 164-175: the visibility a child of the selected tag is given
SelectedChildVisibility(tag, child, st) ==
    IF child \in Healthbar
       /\ (is_store_name_tag(tag, st) \/ NameTagTypeOf(tag) = "Character")
    THEN "Hidden" ELSE "Inherited"

\* a selected tag whose children are set but which is not itself made visible
ShowSelected_ChildrenOnly(v, new, st) ==
    IF new # None
    THEN [v EXCEPT ![new] =
            [k \in DOMAIN v[new] |->
                IF k = "self" THEN v[new][k]
                ELSE IF k \in Healthbar
                        /\ (is_store_name_tag(new, st) \/ NameTagTypeOf(new) = "Character")
                     THEN "Hidden" ELSE "Inherited"]]
    ELSE v

\* a selection that shows every child, the health bars of characters and
\* store owners included
ShowSelected_EveryChild(v, new, st) ==
    IF new # None
    THEN [v EXCEPT ![new] = [k \in DOMAIN v[new] |-> "Inherited"]]
    ELSE v

\* a selection that makes the tag visible and leaves its children alone
ShowSelected_SelfOnly(v, new, st) ==
    IF new # None THEN [v EXCEPT ![new].self = "Inherited"] ELSE v

\* lines 152-177: the selected name tag and its children
ShowSelected(v, new, st) ==
    IF new # None
    THEN [v EXCEPT ![new] =
            [k \in DOMAIN v[new] |->
                IF k = "self" THEN "Inherited"
                ELSE SelectedChildVisibility(new, k, st)]]
    ELSE v

EnvTagLog == [last |-> "env", preTarget |-> <<>>, preState |-> <<>>, preVis |-> <<>>,
              repeat |-> FALSE]

\* one frame of name_tag_visibility_system
NameTagTick ==
    LET selected == VetoDead(target.selected, dead)
        hover == VetoDead(target.hover, dead)
        hover_name_tag_entity == ResolveNameTag(hover)
        selected_name_tag_entity == ResolveNameTag(selected)
        v1 == RestoreHover(vis, state.hover, hover_name_tag_entity, store, show_all)
        v2 == ShowHover(v1, hover_name_tag_entity)
        v3 == RestoreSelected(v2, state.selected, selected_name_tag_entity,
                              store, show_all)
        v4 == ShowSelected(v3, selected_name_tag_entity, store)
    IN  /\ target' = [hover |-> hover, selected |-> selected]
        /\ state' = [hover |-> hover_name_tag_entity,
                     selected |-> selected_name_tag_entity]
        /\ vis' = v4
        /\ tlog' = [last |-> "tick", preTarget |-> target, preState |-> state,
                    preVis |-> vis, repeat |-> (tlog.last = "tick")]
        /\ UNCHANGED <<dead, store, show_all>>
        /\ UNCHANGED <<modelVars, rideVars, inviteVars>>

\* user input: the pointer moves over a target, or off every target
SetHover(t) ==
    /\ target.hover # t
    /\ target' = [target EXCEPT !.hover = t]
    /\ tlog' = EnvTagLog
    /\ UNCHANGED <<state, vis, dead, store, show_all>>
    /\ UNCHANGED <<modelVars, rideVars, inviteVars>>

\* user input: a target is clicked, or the selection is cleared
SetSelected(t) ==
    /\ target.selected # t
    /\ target' = [target EXCEPT !.selected = t]
    /\ tlog' = EnvTagLog
    /\ UNCHANGED <<state, vis, dead, store, show_all>>
    /\ UNCHANGED <<modelVars, rideVars, inviteVars>>

\* a target dies: Dead is inserted
Die(t) ==
    /\ t \notin dead
    /\ dead' = dead \cup {t}
    /\ tlog' = EnvTagLog
    /\ UNCHANGED <<target, state, vis, store, show_all>>
    /\ UNCHANGED <<modelVars, rideVars, inviteVars>>

\* a player opens or closes a personal store
ToggleStore(t) ==
    /\ CanOwnStore(t)
    /\ store' = IF t \in store THEN store \ {t} ELSE store \cup {t}
    /\ tlog' = EnvTagLog
    /\ UNCHANGED <<target, state, vis, dead, show_all>>
    /\ UNCHANGED <<modelVars, rideVars, inviteVars>>

\* another system writes the Visibility of a child of the name tag that is
\* shown as selected
SetChildVisibility(tag, k, x) ==
    /\ tag = state.selected
    /\ vis[tag][k] # x
    /\ vis' = [vis EXCEPT ![tag][k] = x]
    /\ tlog' = EnvTagLog
    /\ UNCHANGED <<target, state, dead, store, show_all>>
    /\ UNCHANGED <<modelVars, rideVars, inviteVars>>

(***************************************************************************)
(* name_tag_vehicle_height_system.  Heights are in tenths of a unit.       *)
(***************************************************************************)
\* map_or(1.8, ..): the character height used when ModelHeight is absent
DefaultHeight == 18

\* model_loader.get_vehicle_driver_seat_height(equipment)
get_vehicle_driver_seat_height(equipment) ==
    10 + 2 * equipment[CHOOSE s \in Slots : \A x \in Slots : s <= x]

\* Option<&ModelHeight>.map_or(1.8, |h| h.height)
character_height(c) == IF c.height THEN c.model_height ELSE DefaultHeight

\* a query without the Added filter: every driver, on every tick
IsNewDriver_EveryDriver(e) == vehicle[e]

\* query_new_drivers: Added<Vehicle> on an entity that carries Vehicle
IsNewDriver(e) == vehicle[e] /\ vehicleAdded[e]

\* new drivers written without the seat height
NewDrivers_NoSeat(y, w) ==
    [e \in Chars |-> IF IsNewDriver(e) THEN character_height(w[e]) ELSE y[e]]

\* lines 19-25: the name tag of a new driver goes to seat height + own height
NewDrivers(y, w) ==
    [e \in Chars |->
        IF IsNewDriver(e)
        THEN get_vehicle_driver_seat_height(w[e].equipment) + character_height(w[e])
        ELSE y[e]]

\* query_stopped_drivers.get(entity): (&NameTagEntity, &ModelHeight), Without<Vehicle>
IsStoppedDriver(e, w) == ~vehicle[e] /\ w[e].height

\* stopped drivers whose name tag is left where it is
StoppedDrivers_Ignored(y, events, w) == y

RECURSIVE StoppedDrivers(_, _, _)
\* lines 28-34: the name tag of a stopped driver goes back to its own height
StoppedDrivers(y, events, w) ==
    IF events = <<>> THEN y
    ELSE LET e == Head(events)
             y1 == IF IsStoppedDriver(e, w)
                   THEN [y EXCEPT ![e] = w[e].model_height] ELSE y
         IN  StoppedDrivers(y1, Tail(events), w)

EnvRideLog == [last |-> "env", preWorld |-> <<>>, preVehicle |-> <<>>,
               preAdded |-> <<>>, preRemoved |-> <<>>, preY |-> <<>>]

\* one frame of name_tag_vehicle_height_system
RideTick ==
    /\ tagY' = StoppedDrivers(NewDrivers(tagY, world), removedVehicles, world)
    /\ vehicleAdded' = [e \in Chars |-> FALSE]
    /\ removedVehicles' = <<>>
    /\ rlog' = [last |-> "tick", preWorld |-> world, preVehicle |-> vehicle,
                preAdded |-> vehicleAdded, preRemoved |-> removedVehicles,
                preY |-> tagY]
    /\ UNCHANGED vehicle
    /\ UNCHANGED <<modelVars, tagVars, inviteVars>>

\* the character mounts: Vehicle is inserted
Mount(e) ==
    /\ ~vehicle[e]
    /\ vehicle' = [vehicle EXCEPT ![e] = TRUE]
    /\ vehicleAdded' = [vehicleAdded EXCEPT ![e] = TRUE]
    /\ rlog' = EnvRideLog
    /\ UNCHANGED <<removedVehicles, tagY>>
    /\ UNCHANGED <<world, changed, removed, rigOf, log, tagVars, inviteVars>>

\* the character dismounts: Vehicle is removed, which sends a removal event
Dismount(e) ==
    /\ vehicle[e]
    /\ Len(removedVehicles) < MaxRemoved
    /\ vehicle' = [vehicle EXCEPT ![e] = FALSE]
    /\ removedVehicles' = Append(removedVehicles, e)
    /\ rlog' = EnvRideLog
    /\ UNCHANGED <<vehicleAdded, tagY>>
    /\ UNCHANGED <<world, changed, removed, rigOf, log, tagVars, inviteVars>>

\* nobody mounted; name tags as created, at the default character height
InitRide ==
    /\ vehicle = [e \in Chars |-> FALSE]
    /\ vehicleAdded = [e \in Chars |-> FALSE]
    /\ removedVehicles = <<>>
    /\ tagY = [e \in Chars |-> DefaultHeight]
    /\ rlog = EnvRideLog

(***************************************************************************)
(* ui_clan_invite_system.  An invite is [id, inviter_name]; id tells the   *)
(* invites of one inviter apart.  What the user does to the window of an   *)
(* invite in one frame is [accept, reject, closed].                        *)
(***************************************************************************)
Inviters == {"ann", "bob"}
\* one pointer: a frame that closes the window clicks no button of it
Clicks ==
    {c \in [accept : BOOLEAN, reject : BOOLEAN, closed : BOOLEAN] :
        c.closed => (~c.accept /\ ~c.reject)}

\* the ids of the invites of a queue: the windows a frame shows
InviteIds(q) == {q[j].id : j \in DOMAIN q}

\* lines 14-62: accepted, and rejected || !window_open
Accepted(click) == click.accept
Rejected(click) == click.reject \/ click.closed

\* lines 64-82: the message for an answered invite, if there is a connection
Response(invite, click, conn) ==
    IF ~conn THEN <<>>
    ELSE IF Accepted(click)
         THEN <<[msg |-> "ClanAcceptInvite", inviter_name |-> invite.inviter_name]>>
         ELSE <<[msg |-> "ClanRejectInvite", inviter_name |-> invite.inviter_name]>>

\* Vec::remove(i)
Remove(q, i) == [j \in 1..(Len(q) - 1) |-> IF j < i THEN q[j] ELSE q[j + 1]]

\* an index that moves on after a removal as well
NextIndex_AlwaysAdvances(i, answered) == i + 1

\* lines 72, 81, 84: continue after a removal, i += 1 otherwise
NextIndex(i, answered) == IF answered THEN i ELSE i + 1

RECURSIVE InviteLoop(_, _, _, _)
\* lines 12-85: the while loop; i counts from 1; lp is [q, sent, visited]
InviteLoop(lp, i, clicks, conn) ==
    IF ~(i <= Len(lp.q)) THEN lp
    ELSE LET invite == lp.q[i]
             click == clicks[invite.id]
             answered == Accepted(click) \/ Rejected(click)
             lp1 == [q |-> IF answered THEN Remove(lp.q, i) ELSE lp.q,
                     sent |-> IF answered
                              THEN lp.sent \o Response(invite, click, conn)
                              ELSE lp.sent,
                     visited |-> Append(lp.visited, invite.id)]
         IN  InviteLoop(lp1, NextIndex(i, answered), clicks, conn)

EnvInviteLog == [last |-> "env", pre |-> <<>>, clicks |-> <<>>, sent |-> <<>>,
                 visited |-> <<>>]

\* one frame of ui_clan_invite_system
InviteTick(clicks) ==
    LET lp == InviteLoop([q |-> invites, sent |-> <<>>, visited |-> <<>>], 1,
                         clicks, game_connection)
    IN  /\ invites' = lp.q
        /\ ilog' = [last |-> "tick", pre |-> invites, clicks |-> clicks,
                    sent |-> lp.sent, visited |-> lp.visited]
        /\ UNCHANGED <<received, game_connection>>
        /\ UNCHANGED <<modelVars, tagVars, rideVars>>

\* the server forwards a clan invite: it is pushed to the queue
ReceiveInvite(name) ==
    /\ received < MaxInvites
    /\ received' = received + 1
    /\ invites' = Append(invites, [id |-> received + 1, inviter_name |-> name])
    /\ ilog' = EnvInviteLog
    /\ UNCHANGED game_connection
    /\ UNCHANGED <<modelVars, tagVars, rideVars>>

\* the connection to the game server comes or goes
SetConnection(conn) ==
    /\ game_connection # conn
    /\ game_connection' = conn
    /\ ilog' = EnvInviteLog
    /\ UNCHANGED <<invites, received>>
    /\ UNCHANGED <<modelVars, tagVars, rideVars>>

\* PendingClanInvites::default(), connected
InitInvites ==
    /\ invites = <<>>
    /\ received = 0
    /\ game_connection = TRUE
    /\ ilog = EnvInviteLog

(***************************************************************************)
(* Initial states and specifications.                                      *)
(***************************************************************************)
\* characters as spawned: CharacterInfo and Equipment just added, no rig yet
InitModel ==
    /\ world = [e \in Chars |->
                  [gender |-> 0, equipment |-> [s \in Slots |-> 0],
                   store |-> FALSE, cm |-> NoCharacterModel,
                   sm |-> NoSkinnedMesh, dbo |-> FALSE,
                   collider |-> FALSE, blink |-> FALSE, height |-> FALSE,
                   model_height |-> 0]]
    /\ changed = [e \in Chars |-> [info |-> TRUE, equip |-> TRUE, store |-> FALSE]]
    /\ removed = <<>>
    /\ rigOf = [e \in Chars |-> {}]
    /\ inputs = 0
    /\ log = EnvLog

\* NameTagVisibility::default(), nothing focused; name tags as created: shown
\* by the default rule, the label shown, the selection-only children hidden
InitTags ==
    /\ target = [hover |-> None, selected |-> None]
    /\ state = [hover |-> None, selected |-> None]
    /\ dead = {}
    /\ store = {}
    /\ show_all \in [NameTagTypes -> BOOLEAN]
    /\ vis = [tag \in Tags |->
                [k \in Children \cup {"self"} |->
                    IF k = "self" THEN DefaultVisibility(tag, {}, show_all)
                    ELSE IF k = "label" THEN "Inherited" ELSE "Hidden"]]
    /\ tlog = EnvTagLog

\* the tag machine at rest, for the specification of the model synchroniser
IdleTags ==
    /\ InitTags
    /\ show_all = [ty \in NameTagTypes |-> FALSE]

Init == InitModel /\ IdleTags /\ InitRide /\ InitInvites

\* the character that receives the inputs in Spec; the other one is a
\* bystander, spawned with it and then left alone
Player == CHOOSE e \in Chars : \A x \in Chars : e <= x

\* every sequence of inputs to one character, ticks in between at any time
Next ==
    \/ Tick /\ UNCHANGED inputs
    \/ \E g \in Genders : SetCharacterInfo(Player, g) /\ UNCHANGED inputs
    \/ \E eq \in Equipments : SetEquipment(Player, eq) /\ UNCHANGED inputs
    \/ OpenStore(Player) /\ UNCHANGED inputs
    \/ CloseStore(Player) /\ UNCHANGED inputs

Spec == Init /\ [][Next]_vars

Input == inputs < MaxInputs /\ inputs' = inputs + 1

\* the inputs to the player's character, counted
PlayerInput ==
    /\ Input
    /\ \/ \E g \in Genders : SetCharacterInfo(Player, g)
       \/ \E eq \in Equipments : SetEquipment(Player, eq)
       \/ OpenStore(Player)
       \/ CloseStore(Player)

\* every sequence of at most MaxInputs inputs to the player's character and
\* despawns of its rig entities by other systems
StaleNext ==
    \/ Tick /\ UNCHANGED inputs
    \/ PlayerInput
    \/ \E id \in 1..MaxEntity : ExternalDespawn(id) /\ Input

StaleSpec == Init /\ [][StaleNext]_vars

\* every sequence of at most MaxInputs inputs to the player's character and
\* runs of the collider system
ColliderNext ==
    \/ Tick /\ UNCHANGED inputs
    \/ PlayerInput
    \/ ComputeCollider(Player) /\ Input

ColliderSpec == Init /\ [][ColliderNext]_vars

\* every sequence of at most MaxInputs inputs to any of the characters
PairNext ==
    \/ Tick /\ UNCHANGED inputs
    \/ \E e \in Chars, g \in Genders : SetCharacterInfo(e, g) /\ Input
    \/ \E e \in Chars, eq \in Equipments : SetEquipment(e, eq) /\ Input
    \/ \E e \in Chars : OpenStore(e) /\ Input
    \/ \E e \in Chars : CloseStore(e) /\ Input

PairSpec == Init /\ [][PairNext]_vars

TagInit == InitModel /\ InitTags /\ InitRide /\ InitInvites

TagNext ==
    \/ NameTagTick
    \/ \E t \in Targets \cup {None} : SetHover(t)
    \/ \E t \in Targets \cup {None} : SetSelected(t)
    \/ \E t \in Targets : Die(t)
    \/ \E t \in Targets : ToggleStore(t)

TagSpec == TagInit /\ [][TagNext]_vars

\* the tag machine with selections and stores only, and other systems
\* writing the visibility of name tag children between the ticks
PerturbNext ==
    \/ NameTagTick
    \/ \E t \in Targets \cup {None} : SetSelected(t)
    \/ \E t \in Targets : ToggleStore(t)
    \/ \E tag \in Tags, k \in Children, x \in {"Inherited", "Hidden"} :
          SetChildVisibility(tag, k, x)

PerturbSpec == TagInit /\ [][PerturbNext]_vars

\* every sequence of at most MaxInputs writes of CharacterInfo and Equipment
\* of the player's character, runs of the collider system, mounts and
\* dismounts, with ticks of the model synchroniser and of the height system
\* in between at any time
RideNext ==
    \/ Tick /\ UNCHANGED inputs
    \/ RideTick
    \/ \E g \in Genders : SetCharacterInfo(Player, g) /\ Input
    \/ \E eq \in Equipments : SetEquipment(Player, eq) /\ Input
    \/ ComputeCollider(Player) /\ Input
    \/ Mount(Player) /\ Input
    \/ Dismount(Player) /\ Input

RideSpec == Init /\ [][RideNext]_vars

\* invites arriving, the connection coming and going, and frames of the
\* invite windows with whatever the user does to each of them
InviteNext ==
    \/ \E clicks \in [InviteIds(invites) -> Clicks] : InviteTick(clicks)
    \/ \E name \in Inviters : ReceiveInvite(name)
    \/ \E conn \in BOOLEAN : SetConnection(conn)

InviteSpec == Init /\ [][InviteNext]_vars

(***************************************************************************)
(* Properties of the model synchroniser.  They speak of the state right    *)
(* after a tick: log.pre is the world the tick started from.               *)
(***************************************************************************)
Ticked == log.last = "tick"

\* the tick ran an iteration of the first loop for e
Matched(e) == log.path[e] # "none"

\* the tick overwrote, re-inserted or removed the rig components of e
RigReplaced(e) == log.path[e] \in {"store", "rebuild"} \/ log.restores[e] > 0

\* no entity occurs twice in the sequence
NoDuplicates(seq) == \A i, j \in DOMAIN seq : seq[i] = seq[j] => i = j

\* the recorded model ids are those of the character's equipment
SameEquipment(c) == \A s \in Slots : c.cm.model_parts[s].id = c.equipment[s]

\* C1 (no leak): after the commands of a tick are applied, the live entities
\* spawned as a character's bones or parts are exactly the entities its
\* CharacterModel.model_parts and SkinnedMesh.joints reference.
C1_NoLeak ==
    Ticked => \A e \in Chars : rigOf[e] = RigRefs(world[e])

\* C2 (I2): when a tick overwrites, re-inserts or removes a character's rig
\* components, every entity the previous rig referenced is despawned exactly
\* once: none is left alive and no despawn hits an entity twice.
C2_PreviousRigDespawnedOnce ==
    Ticked =>
        /\ log.bad = 0
        /\ NoDuplicates(log.despawned)
        /\ \A e \in Chars :
              RigReplaced(e) => RigRefs(log.pre[e]) \cap Live(rigOf) = {}

\* C3 (I3): a character that has a PersonalStore at the end of a tick has no
\* CharacterModel, no SkinnedMesh, no DummyBoneOffset and no live rig entity,
\* and the rig builder was not invoked for it in that tick.
C3_StoreSuppressesRig ==
    Ticked =>
        \A e \in Chars :
            world[e].store =>
                /\ ~world[e].cm.has /\ ~world[e].sm.has /\ ~world[e].dbo
                /\ rigOf[e] = {}
                /\ log.builds[e] = 0 /\ log.updates[e] = 0

\* the part of C3 that the code keeps: no rig components, no rig entity that
\* a component references, no invocation of the rig builder
C3_StoreHasNoRigComponents ==
    Ticked =>
        \A e \in Chars :
            world[e].store =>
                /\ ~world[e].cm.has /\ ~world[e].sm.has /\ ~world[e].dbo
                /\ log.builds[e] = 0 /\ log.updates[e] = 0

\* the character closed its store since the last tick, has none now, and
\* neither CharacterInfo nor Equipment changed
StoreJustClosed(e) ==
    /\ \E i \in DOMAIN log.preRemoved : log.preRemoved[i] = e
    /\ ~log.pre[e].store
    /\ ~log.preChanged[e].info /\ ~log.preChanged[e].equip

\* C4: when a PersonalStore was removed and neither CharacterInfo nor
\* Equipment changed, the next tick invokes the rig builder for the current
\* (CharacterInfo, Equipment) from the removal events, and the character ends
\* the tick with CharacterModel, SkinnedMesh and DummyBoneOffset.
C4_StoreCloseRebuilds ==
    Ticked =>
        \A e \in Chars :
            StoreJustClosed(e) =>
                /\ ~Matched(e)
                /\ log.restores[e] >= 1
                /\ world[e].cm.has /\ world[e].sm.has /\ world[e].dbo
                /\ world[e].cm.gender = world[e].gender
                /\ SameEquipment(world[e])
                /\ Len(world[e].sm.joints) = NumBones
                /\ RigRefs(world[e]) \subseteq rigOf[e]

C4_Witness ==
    /\ Ticked
    /\ StoreJustClosed(Player)
    /\ ~log.pre[Player].cm.has
    /\ world[Player].cm.has

\* the character had a rig and no store, and its gender no longer is the
\* gender of its CharacterModel
BodyTypeChanged(e) ==
    /\ log.pre[e].cm.has /\ log.pre[e].sm.has
    /\ ~log.pre[e].store
    /\ log.preChanged[e].info
    /\ log.pre[e].gender # log.pre[e].cm.gender

\* C5: a gender change on a character with a rig and no store despawns every
\* bone and every part of the old rig, and the new SkinnedMesh.joints shares
\* no entity with the old one.
C5_BodyTypeChangeRebuilds ==
    Ticked =>
        \A e \in Chars :
            BodyTypeChanged(e) =>
                /\ log.path[e] = "rebuild"
                /\ RigRefs(log.pre[e]) \cap Live(rigOf) = {}
                /\ Range(log.pre[e].sm.joints) \subseteq Range(log.despawned)
                /\ world[e].sm.has
                /\ Len(world[e].sm.joints) = NumBones
                /\ Range(world[e].sm.joints) \cap Range(log.pre[e].sm.joints) = {}

C5_Witness ==
    /\ Ticked
    /\ BodyTypeChanged(Player)
    /\ ~log.preChanged[Player].equip
    /\ Len(log.pre[Player].sm.joints) = NumBones
    /\ PartEntities(log.pre[Player].cm) # {}

\* the character has a rig of its gender and no store, no store was closed,
\* and Equipment was written with the value the rig was last given
SameEquipmentAgain(e) ==
    /\ log.pre[e].cm.has /\ ~log.pre[e].store
    /\ log.pre[e].gender = log.pre[e].cm.gender
    /\ log.preChanged[e].equip
    /\ SameEquipment(log.pre[e])
    /\ log.preRemoved = <<>>

C7_OwnershipExclusive ==
    \A e1, e2 \in Chars :
        e1 # e2 => RigRefs(world[e1]) \cap RigRefs(world[e2]) = {}

C7_Witness ==
    /\ Ticked
    /\ \A e \in Chars : world[e].cm.has /\ log.builds[e] > 0
    /\ \E e \in Chars : log.restores[e] > 0

(***************************************************************************)
(* Properties of the overlay focus state machine.  They speak of the state *)
(* right after a tick of name_tag_visibility_system: tlog holds the focus, *)
(* the recorded anchors and the visibilities the tick started from.        *)
(***************************************************************************)
TagTicked == tlog.last = "tick"

FocusFields == {"hover", "selected"}

\* the children of the tag that only a selection may show are all hidden
SelectionOnlyHidden(tag) == \A k \in SelectedOnly : vis[tag][k] = "Hidden"

\* the children of the tag are as the selection rule leaves them
SelectionDriven(tag) ==
    \A k \in Children : vis[tag][k] = SelectedChildVisibility(tag, k, store)

\* C8 (dead-target veto): a focus field that pointed at a dead NPC when the
\* system ran is None after the tick, so is the anchor recorded for it, and
\* the NPC's name tag is shown by the default rule only, with its target mark
\* and health bars hidden.
C8_DeadTargetVeto ==
    TagTicked =>
        \A f \in FocusFields :
            LET t == tlog.preTarget[f]
                tag == NameTagEntityOf(t)
            IN  IsDeadNpc(t, dead) =>
                    /\ target[f] = None
                    /\ state[f] = None
                    /\ tag # None =>
                          /\ vis[tag].self = DefaultVisibility(tag, store, show_all)
                          /\ SelectionOnlyHidden(tag)

\* an NPC that was selected and shown as such died, and the tick vetoed it
C8_Witness ==
    /\ TagTicked
    /\ IsDeadNpc(tlog.preTarget.selected, dead)
    /\ tlog.preState.selected = NameTagEntityOf(tlog.preTarget.selected)
    /\ tlog.preVis[tlog.preState.selected].mark = "Inherited"
    /\ vis[tlog.preState.selected].self = "Hidden"
    /\ target.selected = None

\* anchor A was hovered and selected, and the tick moved the hover to anchor B
\* while A stayed selected
HoverMovedOffSelected(a, b) ==
    /\ tlog.preState.hover = a /\ tlog.preState.selected = a
    /\ state.selected = a
    /\ state.hover = b
    /\ a # b

\* C9 (hover-then-select-then-unhover): when the hover moves from the
\* selected anchor A to anchor B, A stays visible with its children as the
\* selection rule sets them, and B is visible.
C9_HoverMovesOffSelected ==
    TagTicked =>
        \A a, b \in Tags :
            HoverMovedOffSelected(a, b) =>
                /\ vis[a].self = "Inherited"
                /\ vis[a].mark = "Inherited"
                /\ SelectionDriven(a)
                /\ vis[b].self = "Inherited"

\* ... in a case where the default rule would hide both A and B
C9_Witness ==
    /\ TagTicked
    /\ \E a, b \in Tags :
          /\ HoverMovedOffSelected(a, b)
          /\ DefaultVisibility(a, store, show_all) = "Hidden"
          /\ DefaultVisibility(b, store, show_all) = "Hidden"
          /\ tlog.preVis[b].self = "Hidden"

\* C10 (hover always shows the tag): at the end of every tick, the name tag
\* that SelectedTarget.hover resolves to is visible.
C10_HoverAlwaysVisible ==
    TagTicked =>
        LET tag == ResolveNameTag(target.hover)
        IN  tag # None => vis[tag].self = "Inherited"

\* the tick tore down the rig that e had, for a store or for a rebuild
TornDown(e) == log.path[e] \in {"store", "rebuild"} /\ log.pre[e].cm.has

\* the entities that the rig of e referenced when the system ran and that
\* no longer existed then
StaleRefs(e) == RigRefs(log.pre[e]) \ log.preLive

\* C11 (stale entity reference tolerated): when a store teardown or a rebuild
\* finds recorded rig entities that another system has already despawned, it
\* queues no despawn for them, despawns the recorded entities that still
\* exist, and the tick completes: no command fails, nothing panics.
C11_StaleReferenceTolerated ==
    Ticked =>
        \A e \in Chars :
            TornDown(e) =>
                /\ StaleRefs(e) \cap Range(log.despawned) = {}
                /\ (RigRefs(log.pre[e]) \cap log.preLive)
                       \subseteq Range(log.despawned)
                /\ RigRefs(log.pre[e]) \cap Live(rigOf) = {}
                /\ log.bad = 0
                /\ ~log.panic

\* ... in a teardown that found both a stale part and a stale bone, and a
\* recorded entity that still existed
C11_Witness ==
    /\ Ticked
    /\ \E e \in Chars :
          /\ TornDown(e)
          /\ StaleRefs(e) \cap PartEntities(log.pre[e].cm) # {}
          /\ StaleRefs(e) \cap Range(log.pre[e].sm.joints) # {}
          /\ RigRefs(log.pre[e]) \cap log.preLive # {}

\* the focus field pointed at a target that has no name tag entity
Unresolvable(t) == t # None /\ NameTagEntityOf(t) = None

\* C12 as stated (invalid focus target is absorbed by clearing): a focus field
\* that pointed at a target resolving to nothing, or at a dead NPC, is None
\* after the tick.
C12_InvalidFocusCleared ==
    TagTicked =>
        \A f \in FocusFields :
            LET t == tlog.preTarget[f]
            IN  (Unresolvable(t) \/ IsDeadNpc(t, dead)) => target[f] = None

\* C12 as it holds: a focus field that pointed at a dead NPC is None after the
\* tick; one that pointed at a target without a name tag entity, not a dead
\* NPC, keeps its value, and only the anchor recorded for it is None.
C12_InvalidFocusAbsorbed ==
    TagTicked =>
        \A f \in FocusFields :
            LET t == tlog.preTarget[f]
            IN  /\ IsDeadNpc(t, dead) => target[f] = None
                /\ (Unresolvable(t) /\ ~IsDeadNpc(t, dead)) =>
                       (target[f] = t /\ state[f] = None)

\* the selection moved from a shown anchor to a target without a name tag
\* entity, which has died and is no NPC: the field is kept
C12_Witness ==
    /\ TagTicked
    /\ Unresolvable(tlog.preTarget.selected)
    /\ tlog.preTarget.selected \in dead
    /\ tlog.preState.selected # None
    /\ target.selected = tlog.preTarget.selected
    /\ state.selected = None

\* the recorded rig entities of e that existed when the system ran
PreviousGeneration(e) == RigRefs(log.pre[e]) \cap log.preLive

\* the despawn of x is queued, and before every spawn command for e
DespawnedBeforeSpawns(x, e) ==
    \E i \in DOMAIN log.order :
        /\ log.order[i].op = "despawn" /\ log.order[i].ent = x
        /\ \A j \in DOMAIN log.order :
               (log.order[j].op = "spawn" /\ log.order[j].owner = e) => i < j

\* C13 (despawn before rebuild): in every tick that builds a rig for a
\* character that already has rig children, the despawn of every entity of
\* the previous generation is queued before any spawn of the replacement,
\* and no entity of the previous generation is alive after the tick.
C13_DespawnBeforeRebuild ==
    Ticked =>
        \A e \in Chars :
            (log.builds[e] > 0 /\ PreviousGeneration(e) # {}) =>
                /\ \A x \in PreviousGeneration(e) : DespawnedBeforeSpawns(x, e)
                /\ PreviousGeneration(e) \cap Live(rigOf) = {}

\* the part of C13 that holds: the ordering in a tick whose only build for
\* the character is the one of the first loop's rebuild path
C13_RebuildPathOrdered ==
    Ticked =>
        \A e \in Chars :
            (log.path[e] = "rebuild" /\ log.restores[e] = 0
                /\ PreviousGeneration(e) # {}) =>
                /\ \A x \in PreviousGeneration(e) : DespawnedBeforeSpawns(x, e)
                /\ PreviousGeneration(e) \cap Live(rigOf) = {}

\* the character has a rig of its gender and no store, Equipment or
\* CharacterInfo changed, and no store of it was closed since the last tick
InPlaceCase(e) ==
    /\ log.pre[e].cm.has /\ ~log.pre[e].store
    /\ log.pre[e].gender = log.pre[e].cm.gender
    /\ log.preChanged[e].equip \/ log.preChanged[e].info
    /\ e \notin Range(log.preRemoved)

Processed(e) == Matched(e) \/ log.restores[e] > 0

\* C16 (every visual change invalidates the collider): in every tick that
\* processes a character on any path (store teardown, in-place update,
\* rebuild, store-removal rebuild), a collider removal is queued for it and
\* the collider it had before the tick does not exist after it.
C16_ColliderInvalidated ==
    Ticked =>
        \A e \in Chars :
            Processed(e) =>
                (log.colliderRemovals[e] >= 1 /\ ~world[e].collider)

\* ... in an in-place update of a character that had a collider
C16_Witness ==
    /\ Ticked
    /\ \E e \in Chars :
          /\ log.path[e] = "update"
          /\ log.restores[e] = 0
          /\ log.pre[e].collider
          /\ ~world[e].collider

\* the anchor the hover of the tick resolved to
HoverAnchor == ResolveNameTag(VetoDead(tlog.preTarget.hover, dead))

\* the anchor the selection of the tick resolved to
SelectedAnchor == ResolveNameTag(VetoDead(tlog.preTarget.selected, dead))

\* C17 (losing hover restores the default): in every tick in which the
\* resolved hover anchor differs from the recorded one, the recorded hover
\* anchor becomes the new one, and the previous anchor, unless it is the
\* currently selected one, ends the tick visible iff the default rule says so.
C17_LosingHoverRestoresDefault ==
    TagTicked =>
        LET p == tlog.preState.hover
        IN  p # HoverAnchor =>
                /\ state.hover = HoverAnchor
                /\ (p # None /\ p # state.selected) =>
                       vis[p].self = DefaultVisibility(p, store, show_all)

\* ... for an anchor that was shown by the hover only and is hidden again
C17_Witness ==
    /\ TagTicked
    /\ tlog.preState.hover # None
    /\ tlog.preState.hover # HoverAnchor
    /\ HoverAnchor # None
    /\ tlog.preState.hover # state.selected
    /\ tlog.preVis[tlog.preState.hover].self = "Inherited"
    /\ vis[tlog.preState.hover].self = "Hidden"

C19_GainingSelection ==
    TagTicked =>
        (SelectedAnchor # None =>
            /\ vis[SelectedAnchor].self = "Inherited"
            /\ \A k \in Children :
                   vis[SelectedAnchor][k] =
                       IF k \in Healthbar
                          /\ (is_store_name_tag(SelectedAnchor, store)
                                \/ NameTagTypeOf(SelectedAnchor) = "Character")
                       THEN "Hidden" ELSE "Inherited")

\* ... for a newly selected character, whose tag was hidden: its mark is
\* shown and its health bars are not
C19_Witness ==
    /\ TagTicked
    /\ SelectedAnchor # None
    /\ tlog.preState.selected # SelectedAnchor
    /\ NameTagTypeOf(SelectedAnchor) = "Character"
    /\ tlog.preVis[SelectedAnchor].self = "Hidden"
    /\ vis[SelectedAnchor].mark = "Inherited"
    /\ vis[SelectedAnchor].hb_fg = "Hidden"

\* C20 (selection-only children are never shown by a hover): at the end of
\* every tick, the target mark and the health bars of every name tag that is
\* not the currently selected anchor are hidden.
C20_SelectionOnlyChildrenHidden ==
    TagTicked =>
        \A tag \in Tags : tag # SelectedAnchor => SelectionOnlyHidden(tag)

\* ... for a hovered anchor that is shown and not selected, while another
\* anchor is selected
C20_Witness ==
    /\ TagTicked
    /\ HoverAnchor # None
    /\ SelectedAnchor # None
    /\ HoverAnchor # SelectedAnchor
    /\ vis[HoverAnchor].self = "Inherited"
    /\ tlog.preVis[HoverAnchor].self = "Hidden"
    /\ vis[SelectedAnchor].mark = "Inherited"

\* the tick ran with the selected anchor it had already recorded
SelectionKept == SelectedAnchor # None /\ tlog.preState.selected = SelectedAnchor

\* C21 (the selected-anchor rule is re-applied on every tick): when the
\* selection stays the same, whatever happened to the owner's PersonalStore
\* or to the visibility of the anchor's children since the last tick, the
\* tick ends with the anchor visible and its children as the selection rule
\* says, and the recorded selected anchor is unchanged.
C21_SelectedRuleReapplied ==
    TagTicked =>
        (SelectionKept =>
            /\ state.selected = tlog.preState.selected
            /\ vis[SelectedAnchor].self = "Inherited"
            /\ \A k \in Children :
                   vis[SelectedAnchor][k] =
                       IF k \in Healthbar
                          /\ (is_store_name_tag(SelectedAnchor, store)
                                \/ NameTagTypeOf(SelectedAnchor) = "Character")
                       THEN "Hidden" ELSE "Inherited")

\* ... for an anchor whose owner has opened a store and whose health bar
\* was shown and mark hidden by another system: the tick puts both right
C21_Witness ==
    /\ TagTicked
    /\ SelectionKept
    /\ is_store_name_tag(SelectedAnchor, store)
    /\ tlog.preVis[SelectedAnchor].hb_fg = "Inherited"
    /\ tlog.preVis[SelectedAnchor].mark = "Hidden"
    /\ vis[SelectedAnchor].hb_fg = "Hidden"
    /\ vis[SelectedAnchor].mark = "Inherited"

\* C22 (the focus machine writes the focus only to veto): a tick leaves
\* SelectedTarget.hover and SelectedTarget.selected as they were, except that
\* a field whose target is a dead NPC becomes None; no field is set to a
\* value other than None, and no field whose target is alive or is not an
\* NPC is cleared.
C22_FocusWrittenOnlyToVeto ==
    TagTicked =>
        \A f \in FocusFields :
            LET t == tlog.preTarget[f]
            IN  /\ target[f] = (IF IsDeadNpc(t, dead) THEN None ELSE t)
                /\ target[f] \in {None, t}
                /\ (t # None /\ (t \notin dead \/ ~HasNpc(t))) => target[f] = t

\* ... in a tick that vetoed the hover on a dead NPC and kept the selection
\* of a dead player and, in another case, of a living NPC
C22_Witness ==
    /\ TagTicked
    /\ IsDeadNpc(tlog.preTarget.hover, dead)
    /\ target.hover = None
    /\ target.selected # None
    /\ \/ target.selected \in dead /\ ~HasNpc(target.selected)
       \/ target.selected \notin dead /\ HasNpc(target.selected)

\* C26 (rig components come and go together): after the commands of every
\* tick are applied, a character has CharacterModel iff it has SkinnedMesh
\* iff it has DummyBoneOffset, and no tick panics on the unwrap of
\* DummyBoneOffset and SkinnedMesh on the in-place-update path.
C26_RigComponentsTogether ==
    Ticked =>
        /\ ~log.panic
        /\ \A e \in Chars :
              /\ world[e].cm.has <=> world[e].sm.has
              /\ world[e].cm.has <=> world[e].dbo

\* ... in a tick that took the update path, unwrapping both, on a rig that
\* a store-removal rebuild had attached
C26_Witness ==
    /\ Ticked
    /\ \E e \in Chars :
          /\ log.path[e] = "update"
          /\ log.pre[e].dbo /\ log.pre[e].sm.has
          /\ log.pre[e].store = FALSE
          /\ world[e].cm.has /\ world[e].sm.has /\ world[e].dbo
          /\ rigOf[e] # RigRefs(world[e])

\* C27 (at most one rig build per character per tick): in a single tick
\* spawn_character_model is invoked at most once for a character, also when
\* a PersonalStore removal event for it is pending in the tick in which its
\* CharacterInfo or Equipment changed.
C27_OneBuildPerTick ==
    Ticked => \A e \in Chars : log.builds[e] <= 1

\* the part of C27 that holds: the first loop builds at most one rig for a
\* character, and the removal loop at most one for each event
C27_OneBuildPerLoop ==
    Ticked =>
        \A e \in Chars :
            /\ log.builds[e] - log.restores[e] <= 1
            /\ log.restores[e] <=
                  Len(SelectSeq(log.preRemoved, LAMBDA x : x = e))

\* the tick started from the state the previous tick had left: nothing
\* changed SelectedTarget, Dead, PersonalStore or the settings in between
RepeatedTick == TagTicked /\ tlog.repeat

\* C28 (the focus tick is stable on unchanged inputs): when the system runs
\* twice in succession with nothing changed in between, the second run
\* changes no Visibility of a name tag or of a child and leaves the recorded
\* hover and selected anchors unchanged.
C28_RepeatedTickStable ==
    RepeatedTick => (vis = tlog.preVis /\ state = tlog.preState)

\* the part of C28 that holds: the recorded anchors and the focus fields are
\* stable, and so is every Visibility but the hovered name tag's own
C28_RepeatedTickStableButHover ==
    RepeatedTick =>
        /\ state = tlog.preState
        /\ target = tlog.preTarget
        /\ \A tag \in Tags :
              /\ \A k \in Children : vis[tag][k] = tlog.preVis[tag][k]
              /\ tag # state.hover => vis[tag].self = tlog.preVis[tag].self

\* the character has the ModelHeight it had when the tick began, or none
\* as before
ModelHeightUnchanged(e) ==
    /\ world[e].height = log.pre[e].height
    /\ world[e].model_height = log.pre[e].model_height

\* C29 (ModelHeight invalidation per path): the tick removes the character's
\* ModelHeight on the in-place-update path and on the store-removal rebuild,
\* and leaves it unchanged on the store teardown and on the rebuild path of
\* the first loop.
C29_ModelHeightPerPath ==
    Ticked =>
        \A e \in Chars :
            /\ log.path[e] = "update" => ~world[e].height
            /\ log.restores[e] > 0 => ~world[e].height
            /\ (log.path[e] \in {"store", "rebuild"} /\ log.restores[e] = 0)
                  => ModelHeightUnchanged(e)

\* ... in a rebuild for a changed body type that kept the ModelHeight
\* measured on the previous body
C29_Witness ==
    /\ Ticked
    /\ \E e \in Chars :
          /\ log.path[e] = "rebuild" /\ log.restores[e] = 0
          /\ log.pre[e].height /\ world[e].height
          /\ world[e].model_height # ComputedHeight(world[e])

(***************************************************************************)
(* Properties of the height tracker.  rlog holds what the last tick of it  *)
(* started from; tagY is written by nothing else.                          *)
(***************************************************************************)
RideTicked == rlog.last = "tick"

\* the tick found Vehicle newly added on e, and e still mounted
MountBegan(e) == rlog.preVehicle[e] /\ rlog.preAdded[e]

\* the tick found Vehicle removed from e, and e not mounted again
MountEnded(e) == e \in Range(rlog.preRemoved) /\ ~rlog.preVehicle[e]

\* C23 (mount-begin offset): in the tick in which Vehicle is first seen as
\* added on a character, its name tag's vertical offset becomes the driver
\* seat height of its equipment plus its ModelHeight, or plus 1.8 when it has
\* no ModelHeight.
C23_MountBeginOffset ==
    RideTicked =>
        \A e \in Chars :
            MountBegan(e) =>
                tagY[e] =
                    get_vehicle_driver_seat_height(rlog.preWorld[e].equipment)
                    + (IF rlog.preWorld[e].height
                       THEN rlog.preWorld[e].model_height ELSE DefaultHeight)

\* ... for a character whose ModelHeight was known and is not the default
C23_Witness ==
    /\ RideTicked
    /\ MountBegan(Player)
    /\ rlog.preWorld[Player].height
    /\ rlog.preWorld[Player].model_height # DefaultHeight
    /\ tagY[Player] # rlog.preY[Player]
    /\ tagY[Player] > rlog.preWorld[Player].model_height

\* an offset that holds a standing height alone, and no seat height
StandingHeightAlone(y) ==
    y = DefaultHeight \/ \E g \in Genders : y = ComputedHeight([gender |-> g])

\* C24 (mount-end restore): in the tick that finds Vehicle removed from a
\* character that is not mounted again, its name tag's vertical offset
\* becomes its own standing height alone, also when the model synchroniser
\* has removed its ModelHeight in the meantime.
C24_MountEndRestore ==
    RideTicked =>
        \A e \in Chars :
            MountEnded(e) =>
                /\ StandingHeightAlone(tagY[e])
                /\ rlog.preWorld[e].height =>
                       tagY[e] = rlog.preWorld[e].model_height

\* the part of C24 that holds: the restore for a character that has its
\* ModelHeight when the tick runs
C24_MountEndRestoreWithModelHeight ==
    RideTicked =>
        \A e \in Chars :
            (MountEnded(e) /\ rlog.preWorld[e].height) =>
                tagY[e] = rlog.preWorld[e].model_height

\* C25 (the height tracker acts only on mount transitions): a tick of it
\* changes no character's components, ModelHeight or rig entities, and with
\* no Vehicle added or removed since its last run it changes no name tag's
\* vertical offset.
C25_OnlyOnMountTransitions ==
    [][RideTick =>
          /\ UNCHANGED <<world, rigOf>>
          /\ ((\A e \in Chars : ~vehicleAdded[e]) /\ removedVehicles = <<>>)
                 => UNCHANGED tagY]_vars

\* ... in a tick with a mounted character whose height had changed since it
\* mounted: setting the offset again would have moved the name tag
C25_Witness ==
    /\ RideTicked
    /\ \A e \in Chars : ~rlog.preAdded[e]
    /\ rlog.preRemoved = <<>>
    /\ rlog.preVehicle[Player]
    /\ rlog.preY[Player] #
          get_vehicle_driver_seat_height(rlog.preWorld[Player].equipment)
          + character_height(rlog.preWorld[Player])
    /\ tagY = rlog.preY

(***************************************************************************)
(* Properties of the clan invite windows.                                  *)
(***************************************************************************)
InviteTicked == ilog.last = "tick"

\* the user answered the invite in the frame: Accept, Reject or window closed
Answered(invite) ==
    LET click == ilog.clicks[invite.id]
    IN  click.accept \/ click.reject \/ click.closed

RECURSIVE Owed(_)
\* the messages the frame owes to the invites of q, in queue order
Owed(q) ==
    IF q = <<>> THEN <<>>
    ELSE LET invite == Head(q)
             one == IF ~Answered(invite) \/ ~game_connection THEN <<>>
                    ELSE IF ilog.clicks[invite.id].accept
                    THEN <<[msg |-> "ClanAcceptInvite",
                            inviter_name |-> invite.inviter_name]>>
                    ELSE <<[msg |-> "ClanRejectInvite",
                            inviter_name |-> invite.inviter_name]>>
         IN  one \o Owed(Tail(q))

\* C30 (pending clan invite queue): a tick visits each invite of the queue
\* exactly once, in order, and ends; it removes exactly the invites answered
\* in the frame and keeps the others in their order; each answered invite
\* yields one message, ClanAcceptInvite if accepted and ClanRejectInvite
\* otherwise, and none without a connection.
C30_InviteQueue ==
    InviteTicked =>
        /\ ilog.visited = [j \in DOMAIN ilog.pre |-> ilog.pre[j].id]
        /\ invites = SelectSeq(ilog.pre, LAMBDA inv : ~Answered(inv))
        /\ ilog.sent = Owed(ilog.pre)
        /\ Len(ilog.sent) <= Len(ilog.pre) - Len(invites)

\* ... in a frame with three invites, two of one inviter: the first had both
\* buttons clicked, the second was left alone, the third was closed
C30_Witness ==
    /\ InviteTicked
    /\ Len(ilog.pre) = 3
    /\ ilog.pre[1].inviter_name = ilog.pre[3].inviter_name
    /\ ilog.clicks[ilog.pre[1].id].accept /\ ilog.clicks[ilog.pre[1].id].reject
    /\ ~Answered(ilog.pre[2])
    /\ ilog.clicks[ilog.pre[3].id].closed /\ ~ilog.clicks[ilog.pre[3].id].accept
    /\ game_connection
    /\ Len(invites) = 1
    /\ Len(ilog.sent) = 2

====
